---- MODULE Spec2Model ----
(***************************************************************************)
(* mini-image-file-server (app/main.py): the upload / store / serve / reap *)
(* lifecycle as a state machine.                                           *)
(*                                                                         *)
(* The server is one asyncio event loop (uvicorn.run(app), one process):   *)
(* a coroutine gives up control only at an await.  Every action below is   *)
(* the code between two awaits of a request handler, or one iteration of   *)
(* the synchronous reap cycle, which no other task can interleave with.    *)
(*                                                                         *)
(* Sizes are scaled: a byte is one element of a sequence, CHUNK_SIZE is    *)
(* MiB bytes and the ceiling is MAX_FILE_MB * MiB bytes.  Time is a        *)
(* counter of days; TTL_DAYS is measured in its ticks.                     *)
(***************************************************************************)
EXTENDS Integers, Sequences, FiniteSets, TLC

\* ------------------------------------------------------------------ bounds
MaxBody == 3
MaxTime == 2

MaxPage == 4
MaxLimit == 2
MaxItems == 4

\* --------------------------------------------------------- configuration
MiB == 2
CHUNK_SIZE == MiB
MAX_FILE_MB == 1
TTL_DAYS == 1

max_bytes == MAX_FILE_MB * MiB

IMAGE_MIME == {"image/jpeg", "image/png", "image/gif", "image/webp"}

ARCHIVE_MIME ==
    {"application/zip", "application/x-zip-compressed",
     "application/x-7z-compressed", "application/x-rar-compressed",
     "application/x-tar", "application/gzip", "application/x-bzip2",
     "application/x-xz"}

EXT_BY_MIME ==
    [m \in IMAGE_MIME \cup ARCHIVE_MIME |->
        CASE m = "image/jpeg" -> ".jpg"
          [] m = "image/png" -> ".png"
          [] m = "image/gif" -> ".gif"
          [] m = "image/webp" -> ".webp"
          [] m = "application/zip" -> ".zip"
          [] m = "application/x-zip-compressed" -> ".zip"
          [] m = "application/x-7z-compressed" -> ".7z"
          [] m = "application/x-rar-compressed" -> ".rar"
          [] m = "application/x-tar" -> ".tar"
          [] m = "application/gzip" -> ".gz"
          [] m = "application/x-bzip2" -> ".bz2"
          [] m = "application/x-xz" -> ".xz"]

\* ------------------------------------------------------------ input space
\* The first byte of a body stands for its magic number; "x" is filler and,
\* in first position, content no sniffer recognises.
Magic == {"PNG", "ZIP", "EXE", "x"}

RECURSIVE Fill(_)
Fill(n) == IF n = 0 THEN << >> ELSE <<"x">> \o Fill(n - 1)

\* Bodies of every length up to MaxBody for the two allowed classes, and one
\* body each for a disallowed and for an unrecognised type.
Bodies ==
    {<< >>, <<"EXE">>, <<"x">>}
    \cup {<<m>> \o Fill(n) : m \in {"PNG", "ZIP"}, n \in 0..(MaxBody - 1)}

\* A client filename is its sequence of path components; << >> is the
\* empty filename.
FileNames == {<< >>, <<"a.jpg">>, <<"d", "b.zip">>}

\* The Content-Length header: absent, not a number, or a number.
ContentLengths ==
    {[kind |-> "absent", n |-> 0], [kind |-> "garbage", n |-> 0]}
    \cup {[kind |-> "int", n |-> k] : k \in {0, max_bytes, max_bytes + 1}}

\* The page and limit parameters of a list request: in and out of range.
Pages == 0..MaxPage

Limits == {0, 1, MaxLimit, 101}

\* The upload requests of a run: two, so that uploads overlap.
Reqs == {1, 2}

VARIABLES
    now,      \* the clock, in days
    images,   \* IMAGES_DIR: the files {id}{ext}
    files,    \* FILES_DIR: the files {id}{ext} other than sidecars
    metas,    \* FILES_DIR: the sidecars {id}.json
    tmp,      \* DATA_ROOT/tmp_*: the staging file of each upload request
    req,      \* the upload requests: position in upload() and its locals
    reaper,   \* cleanup_loop: position, cutoff, the rest of the scan and p
    nextId,   \* the identifiers uuid4 has handed out
    reader    \* a raw-delivery request: the FileResponse its handler returned

vars == <<now, images, files, metas, tmp, req, reaper, nextId, reader>>

\* ---------------------------------------------------------------- helpers
\* filetype.guess on the staged content: the media type of the magic
\* number, "none" when the content is not recognised.
_guess(data) ==
    IF data = << >> THEN "none"
    ELSE CASE data[1] = "JPG" -> "image/jpeg"
           [] data[1] = "PNG" -> "image/png"
           [] data[1] = "GIF" -> "image/gif"
           [] data[1] = "ZIP" -> "application/zip"
           [] data[1] = "EXE" -> "application/x-msdownload"
           [] OTHER -> "none"

\* Path(file.filename).name: the last path component.
BaseName(fname) == IF fname = << >> THEN "" ELSE fname[Len(fname)]

NoTmp == [exists |-> FALSE, data |-> << >>, mtime |-> 0]

IdleReq ==
    [pc |-> "idle", fname |-> << >>, body |-> << >>, pos |-> 0, size |-> 0,
     status |-> 0, detail |-> "", type |-> "none", fid |-> 0]

\* Mutant: the object identifier is drawn when the request starts, so that a
\* request that ends in an error has one too.
Done_WithId(r, status, detail) ==
    [req[r] EXCEPT !.pc = "done", !.status = status, !.detail = detail,
                   !.pos = 0, !.size = 0, !.fid = nextId]

\* The request is over: its locals are gone; what it was sent and what it
\* answered stay.  fid is set on the branches that draw it, and only there.
Done(r, status, detail) ==
    [req[r] EXCEPT !.pc = "done", !.status = status, !.detail = detail,
                   !.pos = 0, !.size = 0]

\* A new request takes the lowest free slot (the slots are interchangeable).
Arrives(r) == req[r].pc = "idle" /\ \A q \in Reqs : q < r => req[q].pc # "idle"

\* The event loop runs one task at a time: a request handler or the clock
\* moves only while cleanup_loop is suspended in asyncio.sleep.
ReaperAsleep == reaper.pc = "sleep"

NoScan == [img |-> {}, arc |-> {}, orph |-> {}]

\* No directory entry: the loop variable p outside the loop body.
NoEntry == <<0, "">>

IdleReaper ==
    [pc |-> "sleep", cutoff |-> 0, todo |-> {}, cur |-> NoEntry, scan |-> NoScan]

\* The identifiers a client asks for: those of this run's uploads and 0.
Ids == 0..Cardinality(Reqs)

NoBody == << >>

IdleReader ==
    [pc |-> "idle", cls |-> "none", fid |-> 0, ext |-> "", media |-> "",
     status |-> 0, body |-> NoBody]

\* ------------------------------------------------------------------- Init
\* The storage directories are created with exist_ok: FILES_DIR may hold a
\* sidecar left without its blob by an earlier run.
OrphanMeta ==
    [id |-> 0, mtime |-> 0, text |-> "json",
     data |-> [id |-> 0, original_name |-> "old.zip", saved_name |-> <<0, ".zip">>,
               size |-> 1, created |-> 0]]

Init ==
    /\ now = 0
    /\ images = {}
    /\ files = {}
    /\ metas = {OrphanMeta}
    /\ tmp = [r \in Reqs |-> NoTmp]
    /\ req = [r \in Reqs |-> IdleReq]
    /\ reaper = IdleReaper
    /\ nextId = 1
    /\ reader = IdleReader

\* The clock advances (between any two steps of the event loop).
Tick ==
    /\ ReaperAsleep
    /\ now < MaxTime
    /\ now' = now + 1
    /\ UNCHANGED <<images, files, metas, tmp, req, reaper, nextId, reader>>

\* ----------------------------------------------------------------- upload
\* upload(): no filename.
UploadNoFilename(r) ==
    /\ ReaperAsleep
    /\ Arrives(r)
    /\ \E body \in Bodies :
        req' = [req EXCEPT ![r] =
                  [IdleReq EXCEPT !.pc = "done", !.body = body,
                                  !.status = 400, !.detail = "no filename"]]
    /\ UNCHANGED <<now, images, files, metas, tmp, reaper, nextId, reader>>

\* int(cl) > max_bytes, for a Content-Length that is present and a number.
HintTooLarge(cl) == cl.kind = "int" /\ cl.n > max_bytes

\* upload(): early rejection by Content-Length.
UploadHintTooLarge(r) ==
    /\ ReaperAsleep
    /\ Arrives(r)
    /\ \E fname \in FileNames \ {<< >>}, body \in Bodies, cl \in ContentLengths :
        /\ HintTooLarge(cl)
        /\ req' = [req EXCEPT ![r] =
                     [IdleReq EXCEPT !.pc = "done", !.fname = fname, !.body = body,
                                     !.status = 413, !.detail = "too large"]]
    /\ UNCHANGED <<now, images, files, metas, tmp, reaper, nextId, reader>>

\* upload(): the staging file is opened for writing and the handler waits
\* for the first chunk.
UploadOpen(r) ==
    /\ ReaperAsleep
    /\ Arrives(r)
    /\ \E fname \in FileNames \ {<< >>}, body \in Bodies, cl \in ContentLengths :
        /\ ~HintTooLarge(cl)
        /\ req' = [req EXCEPT ![r] =
                     [IdleReq EXCEPT !.pc = "read", !.fname = fname, !.body = body]]
    /\ tmp' = [tmp EXCEPT ![r] = [exists |-> TRUE, data |-> << >>, mtime |-> now]]
    /\ UNCHANGED <<now, images, files, metas, reaper, nextId, reader>>

\* file.read(CHUNK_SIZE): the next at most CHUNK_SIZE bytes of the body.
Chunk(r) ==
    SubSeq(req[r].body, req[r].pos + 1,
           IF req[r].pos + CHUNK_SIZE < Len(req[r].body)
           THEN req[r].pos + CHUNK_SIZE ELSE Len(req[r].body))

\* Mutant: the running count is compared one chunk too late.
OverCeiling_Late(size) == size > max_bytes + CHUNK_SIZE

\* size > max_bytes, after size += len(chunk).
OverCeiling(size) == size > max_bytes

\* upload(): a chunk within the ceiling is written to the staging file.
UploadChunkWrite(r) ==
    /\ ReaperAsleep
    /\ req[r].pc = "read"
    /\ Chunk(r) # << >>
    /\ ~OverCeiling(req[r].size + Len(Chunk(r)))
    /\ req' = [req EXCEPT ![r].pos = @ + Len(Chunk(r)),
                          ![r].size = @ + Len(Chunk(r))]
    /\ tmp' = [tmp EXCEPT ![r].data = @ \o Chunk(r), ![r].mtime = now]
    /\ UNCHANGED <<now, images, files, metas, reaper, nextId, reader>>

\* upload(): the running count exceeds the ceiling: HTTPException(413),
\* whose handler unlinks the staging file.
UploadChunkTooLarge(r) ==
    /\ ReaperAsleep
    /\ req[r].pc = "read"
    /\ Chunk(r) # << >>
    /\ OverCeiling(req[r].size + Len(Chunk(r)))
    /\ req' = [req EXCEPT ![r] =
                 Done(r, 413, "file too large")]
    /\ tmp' = [tmp EXCEPT ![r] = NoTmp]
    /\ UNCHANGED <<now, images, files, metas, reaper, nextId, reader>>

\* upload(): the empty chunk ends the loop; the staging file is closed and
\* the handler waits in file.close().
UploadEof(r) ==
    /\ ReaperAsleep
    /\ req[r].pc = "read"
    /\ Chunk(r) = << >>
    /\ req' = [req EXCEPT ![r].pc = "close"]
    /\ UNCHANGED <<now, images, files, metas, tmp, reaper, nextId, reader>>

\* upload(): nothing was written.
UploadEmpty(r) ==
    /\ ReaperAsleep
    /\ req[r].pc = "close"
    /\ req[r].size = 0
    /\ req' = [req EXCEPT ![r] = Done(r, 400, "empty upload")]
    /\ tmp' = [tmp EXCEPT ![r] = NoTmp]
    /\ UNCHANGED <<now, images, files, metas, reaper, nextId, reader>>

\* Mutant: the type is taken from the extension of the client's filename.
Classify_ByName(r) ==
    CASE BaseName(req[r].fname) = "a.jpg" -> "image/jpeg"
      [] BaseName(req[r].fname) = "b.zip" -> "application/zip"
      [] OTHER -> "none"

\* mime, _magic_ext = _guess(tmp): the type is sniffed from the staged file.
Classify(r) == _guess(tmp[r].data)

\* upload(): the sniffer does not recognise the staged content.
UploadUnsupported(r) ==
    /\ ReaperAsleep
    /\ req[r].pc = "close"
    /\ req[r].size # 0
    /\ Classify(r) = "none"
    /\ req' = [req EXCEPT ![r] = Done(r, 415, "unsupported media type")]
    /\ tmp' = [tmp EXCEPT ![r] = NoTmp]
    /\ UNCHANGED <<now, images, files, metas, reaper, nextId, reader>>

\* Mutant: the move copies the staged bytes and loses the last one.
Renamed_Truncating(r, fid, ext) ==
    [id |-> fid, ext |-> ext, mtime |-> tmp[r].mtime,
     data |-> SubSeq(tmp[r].data, 1, Len(tmp[r].data) - 1)]

\* tmp.rename(dst): the staging file becomes {fid}{ext}, content and
\* modification time unchanged.
Renamed(r, fid, ext) ==
    [id |-> fid, ext |-> ext, data |-> tmp[r].data, mtime |-> tmp[r].mtime]

\* Mutant: the generator hands out an identifier it handed out before.
uuid4_Reused == IF nextId > 1 THEN nextId - 1 ELSE nextId

\* uuid.uuid4().hex: an identifier never handed out before.
uuid4 == nextId

\* tmp.rename(dst) as seen from the directory dir: dst takes its path, and
\* replaces whatever file was there.
Rename(dir, dst) == {f \in dir : ~(f.id = dst.id /\ f.ext = dst.ext)} \cup {dst}

\* upload(): an image is moved into IMAGES_DIR under a new identifier.
UploadCommitImage(r) ==
    /\ ReaperAsleep
    /\ req[r].pc = "close"
    /\ req[r].size # 0
    /\ Classify(r) \in IMAGE_MIME
    /\ LET fid == uuid4
           dst == Renamed(r, fid, EXT_BY_MIME[Classify(r)])
       IN /\ images' = Rename(images, dst)
          /\ req' = [req EXCEPT ![r] =
                       [Done(r, 200, "") EXCEPT !.type = "image", !.fid = fid]]
    /\ tmp' = [tmp EXCEPT ![r] = NoTmp]
    /\ nextId' = nextId + 1
    /\ UNCHANGED <<now, files, metas, reaper, reader>>

\* Mutant: the sidecar is written under another stem than the blob's.
Sidecar_OtherStem(r, dst) ==
    [id |-> 0 - dst.id, mtime |-> now, text |-> "json",
     data |-> [id |-> 0 - dst.id, original_name |-> BaseName(req[r].fname),
               saved_name |-> <<dst.id, dst.ext>>, size |-> Len(dst.data),
               created |-> dst.mtime]]

\* Mutant: every sidecar is written under the same fixed name.
Sidecar_FixedStem(r, dst) ==
    [id |-> 0, mtime |-> now, text |-> "json",
     data |-> [id |-> dst.id, original_name |-> BaseName(req[r].fname),
               saved_name |-> <<dst.id, dst.ext>>, size |-> Len(dst.data),
               created |-> dst.mtime]]

\* The sidecar upload() writes for the archive blob dst.
Sidecar(r, dst) ==
    [id |-> dst.id, mtime |-> now, text |-> "json",
     data |-> [id |-> dst.id, original_name |-> BaseName(req[r].fname),
               saved_name |-> <<dst.id, dst.ext>>, size |-> Len(dst.data),
               created |-> dst.mtime]]

\* (FILES_DIR / f"{fid}.json").write_text(...): the sidecar m takes its
\* path, and replaces whatever file was there.
WriteText(mts, m) == {k \in mts : k.id # m.id} \cup {m}

\* upload(): an archive is moved into FILES_DIR under a new identifier and
\* its sidecar is written.
UploadCommitArchive(r) ==
    /\ ReaperAsleep
    /\ req[r].pc = "close"
    /\ req[r].size # 0
    /\ Classify(r) \in ARCHIVE_MIME
    /\ LET fid == uuid4
           dst == Renamed(r, fid, EXT_BY_MIME[Classify(r)])
       IN /\ files' = Rename(files, dst)
          /\ metas' = WriteText(metas, Sidecar(r, dst))
          /\ req' = [req EXCEPT ![r] =
                       [Done(r, 200, "") EXCEPT !.type = "file", !.fid = fid]]
    /\ tmp' = [tmp EXCEPT ![r] = NoTmp]
    /\ nextId' = nextId + 1
    /\ UNCHANGED <<now, images, reaper, reader>>

\* upload(): a recognised type on neither allow-list.
UploadNotAllowed(r) ==
    /\ ReaperAsleep
    /\ req[r].pc = "close"
    /\ req[r].size # 0
    /\ Classify(r) \notin {"none"} \cup IMAGE_MIME \cup ARCHIVE_MIME
    /\ req' = [req EXCEPT ![r] = Done(r, 415, "media type not allowed")]
    /\ tmp' = [tmp EXCEPT ![r] = NoTmp]
    /\ UNCHANGED <<now, images, files, metas, reaper, nextId, reader>>

\* ------------------------------------------- upload: errors and cancellation
\* upload(): file.read raises; the handler for Exception unlinks the staging
\* file and re-raises.
UploadReadError(r) ==
    /\ ReaperAsleep
    /\ req[r].pc = "read"
    /\ req' = [req EXCEPT ![r] = Done(r, 500, "read failed")]
    /\ tmp' = [tmp EXCEPT ![r] = NoTmp]
    /\ UNCHANGED <<now, images, files, metas, reaper, nextId, reader>>

\* What the handlers of the streaming try block leave of the staging file
\* when the awaited call is cancelled: CancelledError is neither an
\* HTTPException nor an Exception, so only the finally clause runs.
AfterCancel(t) == t

\* upload(): the request is cancelled while it waits in file.read or in
\* file.close.
UploadCancel(r) ==
    /\ ReaperAsleep
    /\ req[r].pc \in {"read", "close"}
    /\ req' = [req EXCEPT ![r] = Done(r, 0, "cancelled")]
    /\ tmp' = [tmp EXCEPT ![r] = AfterCancel(tmp[r])]
    /\ UNCHANGED <<now, images, files, metas, reaper, nextId, reader>>

\* What is left of the staging file when a statement after the streaming
\* try block raises: no handler covers those statements.
AfterRaise(t) == t

\* upload(): _guess raises on the staged file.
UploadGuessError(r) ==
    /\ ReaperAsleep
    /\ req[r].pc = "close"
    /\ req[r].size # 0
    /\ req' = [req EXCEPT ![r] = Done(r, 500, "guess failed")]
    /\ tmp' = [tmp EXCEPT ![r] = AfterRaise(tmp[r])]
    /\ UNCHANGED <<now, images, files, metas, reaper, nextId, reader>>

\* upload(): tmp.rename(dst) raises; the identifier is already drawn.
UploadRenameError(r) ==
    /\ ReaperAsleep
    /\ req[r].pc = "close"
    /\ req[r].size # 0
    /\ Classify(r) \in IMAGE_MIME \cup ARCHIVE_MIME
    /\ req' = [req EXCEPT ![r] = Done(r, 500, "rename failed")]
    /\ tmp' = [tmp EXCEPT ![r] = AfterRaise(tmp[r])]
    /\ nextId' = nextId + 1
    /\ UNCHANGED <<now, images, files, metas, reaper, reader>>

\* upload(): the archive blob is in place and write_text raises: the
\* sidecar is missing or was created and left empty.
UploadSidecarError(r) ==
    /\ ReaperAsleep
    /\ req[r].pc = "close"
    /\ req[r].size # 0
    /\ Classify(r) \in ARCHIVE_MIME
    /\ LET fid == uuid4
           dst == Renamed(r, fid, EXT_BY_MIME[Classify(r)])
       IN /\ files' = Rename(files, dst)
          /\ \E written \in BOOLEAN :
               metas' = IF written
                        THEN WriteText(metas, [Sidecar(r, dst) EXCEPT !.text = "empty"])
                        ELSE metas
          /\ req' = [req EXCEPT ![r] =
                       [Done(r, 500, "sidecar failed") EXCEPT !.type = "file", !.fid = fid]]
    /\ tmp' = [tmp EXCEPT ![r] = NoTmp]
    /\ nextId' = nextId + 1
    /\ UNCHANGED <<now, images, reaper, reader>>

\* ----------------------------------------------------------- cleanup_loop
\* A directory entry is the pair <<stem, suffix>>.  The cycle is synchronous
\* and its cutoff is fixed, so an entry that needs nothing when its folder
\* is listed needs nothing when the loop reaches it: the listings below keep
\* the entries the loop body can act on, visited in any order.

\* Mutant: the comparison with the cutoff is reversed.
ExpiredIn_Reversed(dir, p, cutoff) ==
    \E f \in dir : f.id = p[1] /\ f.mtime > cutoff

\* p.is_file() and its modification time is before the cutoff.
ExpiredIn(dir, p, cutoff) ==
    \E f \in dir : f.id = p[1] /\ f.mtime < cutoff

\* IMAGES_DIR.iterdir()
ListImages(imgs, cutoff) ==
    {<<f.id, f.ext>> : f \in {g \in imgs : g.mtime < cutoff}}

\* FILES_DIR.iterdir(): blobs and sidecars alike
ListFiles(fls, mts, cutoff) ==
    {<<f.id, f.ext>> : f \in {g \in fls : g.mtime < cutoff}}
    \cup {<<m.id, ".json">> : m \in {k \in mts : k.mtime < cutoff}}

\* Mutant: any file of the folder counts as the blob of the sidecar.
BlobExists_AnyStem(fls, fid) == \E q \in fls : q.ext # ".json"

\* any(q for q in FILES_DIR.iterdir() if q.stem == fid and not .json)
BlobExists(fls, fid) == \E q \in fls : q.id = fid /\ q.ext # ".json"

\* FILES_DIR.glob("*.json")
ListMetas(fls, mts) ==
    {<<m.id, ".json">> : m \in {k \in mts : ~BlobExists(fls, k.id)}}

\* p.unlink(missing_ok=True)
Unlink(dir, p) == {f \in dir : ~(f.id = p[1] /\ f.ext = p[2])}

\* Mutant: the unlink of a sidecar removes nothing.
UnlinkMeta_Missed(mts, fid) == mts

\* (FILES_DIR / f"{stem}.json").unlink(missing_ok=True)
UnlinkMeta(mts, fid) == {m \in mts : m.id # fid}

\* What a cycle finds at its start (kept for the claims about a cycle): the
\* blobs of both areas older than now - TTL_DAYS and the sidecars without
\* a blob.
Scan ==
    [img |-> {f.id : f \in {g \in images : g.mtime < now - TTL_DAYS}},
     arc |-> {f.id : f \in {g \in files : g.mtime < now - TTL_DAYS}},
     orph |-> {m.id : m \in {k \in metas : \A f \in files : f.id # k.id}}]

\* Mutant: the TTL is not subtracted.
Cutoff_NoTTL == now

\* cutoff = _now() - timedelta(days=TTL_DAYS)
Cutoff == now - TTL_DAYS

\* The loop's position once a folder is exhausted: the next folder that has
\* work, or the end of the cycle.
EndCycle(rp) == [rp EXCEPT !.pc = "end", !.todo = {}, !.cur = NoEntry]

EnterOrphans(rp, fls, mts) ==
    IF ListMetas(fls, mts) = {} THEN EndCycle(rp)
    ELSE [rp EXCEPT !.pc = "orphans", !.todo = ListMetas(fls, mts)]

EnterFiles(rp, fls, mts) ==
    IF ListFiles(fls, mts, rp.cutoff) = {} THEN EnterOrphans(rp, fls, mts)
    ELSE [rp EXCEPT !.pc = "files", !.todo = ListFiles(fls, mts, rp.cutoff)]

EnterImages(rp, imgs, fls, mts) ==
    IF ListImages(imgs, rp.cutoff) = {} THEN EnterFiles(rp, fls, mts)
    ELSE [rp EXCEPT !.pc = "images", !.todo = ListImages(imgs, rp.cutoff)]

\* cleanup_loop: a cycle starts: the cutoff, then the first folder.
ReapBegin ==
    /\ reaper.pc = "sleep"
    /\ reaper' = EnterImages([pc |-> "images", cutoff |-> Cutoff, todo |-> {},
                              cur |-> NoEntry, scan |-> Scan],
                             images, files, metas)
    /\ UNCHANGED <<now, images, files, metas, tmp, req, nextId, reader>>

\* cleanup_loop: one entry of IMAGES_DIR.
ReapImage ==
    /\ reaper.pc = "images"
    /\ \E p \in reaper.todo :
        /\ images' = IF ExpiredIn(images, p, reaper.cutoff)
                     THEN Unlink(images, p) ELSE images
        /\ reaper' = IF reaper.todo = {p}
                     THEN EnterFiles(reaper, files, metas)
                     ELSE [reaper EXCEPT !.todo = @ \ {p}]
    /\ UNCHANGED <<now, files, metas, tmp, req, nextId, reader>>

\* Mutant: the sidecar's name is built from another stem than the blob's.
SidecarStem_Other(p) == 0 - 1 - p[1]

\* p.stem, of which the sidecar's name {stem}.json is built.
SidecarStem(p) == p[1]

\* The first unlink of the loop body on the entry p of FILES_DIR: for an
\* expired blob its sidecar; an expired sidecar is unlinked as a file.
ReapFileBody(p, cutoff) ==
    IF p[2] # ".json"
    THEN IF ExpiredIn(files, p, cutoff)
         THEN UnlinkMeta(metas, SidecarStem(p))
         ELSE metas
    ELSE IF ExpiredIn(metas, p, cutoff)
         THEN UnlinkMeta(metas, p[1])
         ELSE metas

\* The loop's position after the entry p of FILES_DIR.
AfterFile(rp, fls, mts) ==
    IF rp.todo = {} THEN EnterOrphans([rp EXCEPT !.cur = NoEntry], fls, mts)
    ELSE [rp EXCEPT !.pc = "files", !.cur = NoEntry]

\* cleanup_loop: one entry of FILES_DIR, up to its first unlink; an expired
\* blob is left to the second.
ReapFile ==
    /\ reaper.pc = "files"
    /\ \E p \in reaper.todo :
        LET rest == [reaper EXCEPT !.todo = @ \ {p}]
        IN /\ metas' = ReapFileBody(p, reaper.cutoff)
           /\ reaper' = IF p[2] # ".json" /\ ExpiredIn(files, p, reaper.cutoff)
                        THEN [rest EXCEPT !.pc = "blob", !.cur = p]
                        ELSE AfterFile(rest, files, metas')
    /\ UNCHANGED <<now, images, files, tmp, req, nextId, reader>>

\* cleanup_loop: p.unlink(missing_ok=True) on an expired blob of FILES_DIR,
\* its sidecar already unlinked.
ReapBlob ==
    /\ reaper.pc = "blob"
    /\ files' = Unlink(files, reaper.cur)
    /\ reaper' = AfterFile(reaper, files', metas)
    /\ UNCHANGED <<now, images, metas, tmp, req, nextId, reader>>

\* cleanup_loop: one sidecar of the reconciliation pass.
ReapOrphan ==
    /\ reaper.pc = "orphans"
    /\ \E meta \in reaper.todo :
        /\ LET fid == meta[1]
           IN metas' = IF ~BlobExists(files, fid) THEN UnlinkMeta(metas, fid) ELSE metas
        /\ reaper' = IF reaper.todo = {meta}
                     THEN EndCycle(reaper)
                     ELSE [reaper EXCEPT !.todo = @ \ {meta}]
    /\ UNCHANGED <<now, images, files, tmp, req, nextId, reader>>

\* cleanup_loop: the cycle is over: asyncio.sleep(CLEANUP_INTERVAL_SECONDS).
ReapSleep ==
    /\ reaper.pc = "end"
    /\ reaper' = IdleReaper
    /\ UNCHANGED <<now, images, files, metas, tmp, req, nextId, reader>>

\* ---------------------------------------------------------------- lifespan
\* Mutant: the cycle awaits between its filesystem calls, so that a
\* cancellation is delivered anywhere in the loop.
AtAwait_Anywhere(rp) == rp.pc # "stopped"

\* cleanup_loop is suspended in its only await, asyncio.sleep: the point
\* where a cancellation is delivered to the task.
AtAwait(rp) == rp.pc = "sleep"

\* lifespan, on shutdown: task.cancel() and await task.  CancelledError is
\* raised in cleanup_loop at the await it is suspended in; no handler of the
\* loop covers that await, and the task ends where it is.
Shutdown ==
    /\ AtAwait(reaper)
    /\ reaper' = [reaper EXCEPT !.pc = "stopped"]
    /\ UNCHANGED <<now, images, files, metas, tmp, req, nextId, reader>>

\* ------------------------------------------------ cleanup_loop: I/O errors
\* cleanup_loop: a filesystem call of the cycle (p.stat, an unlink, a
\* directory listing) raises an error other than FileNotFoundError.  The
\* handler inside the loop body does not match it; the exception leaves the
\* loops, the handler around the whole cycle passes, and the loop sleeps.
\* Mutant: no handler surrounds the cycle, and the exception ends the task.
ExceptPass_Uncaught(rp) == [rp EXCEPT !.pc = "stopped"]

\* except Exception: pass, around the whole cycle: the rest of the cycle is
\* skipped and the loop goes on to its sleep.
ExceptPass(rp) == EndCycle(rp)

ReapError ==
    /\ reaper.pc \in {"images", "files", "blob", "orphans"}
    /\ reaper' = ExceptPass(reaper)
    /\ UNCHANGED <<now, images, files, metas, tmp, req, nextId, reader>>

\* ----------------------------------------------------------- raw delivery
\* Mutant: the suffix is looked up with its leading dot.
ImageMedia_Dotted(ext) == "application/octet-stream"

\* raw_image: the media type of the stored extension.
ImageMedia(ext) ==
    CASE ext = ".jpg" -> "image/jpeg"
      [] ext = ".jpeg" -> "image/jpeg"
      [] ext = ".png" -> "image/png"
      [] ext = ".gif" -> "image/gif"
      [] ext = ".webp" -> "image/webp"
      [] OTHER -> "application/octet-stream"

\* mimetypes.guess_type(p.name): the media type of an extension.
GuessType(ext) ==
    CASE ext = ".zip" -> "application/zip"
      [] ext = ".tar" -> "application/x-tar"
      [] ext = ".7z" -> "application/x-7z-compressed"
      [] OTHER -> "none"

\* raw_image(fid): 404, or a FileResponse for the first match.
raw_image(fid) ==
    LET matches == {f \in images : f.id = fid}
    IN IF matches = {}
       THEN [IdleReader EXCEPT !.cls = "image", !.fid = fid, !.status = 404]
       ELSE LET p == CHOOSE f \in matches : TRUE
            IN [IdleReader EXCEPT !.pc = "send", !.cls = "image", !.fid = fid,
                                  !.ext = p.ext, !.media = ImageMedia(p.ext)]

\* raw_file(fid): 404 without a sidecar or without a blob, a failure when
\* the sidecar is not JSON, or a FileResponse whose media type is sniffed
\* from the blob.
raw_file(fid) ==
    LET file_matches == {f \in files : f.id = fid /\ f.ext # ".json"}
    IN IF ~(\E m \in metas : m.id = fid)
       THEN [IdleReader EXCEPT !.cls = "file", !.fid = fid, !.status = 404]
       ELSE IF \E m \in metas : m.id = fid /\ m.text # "json"
       THEN [IdleReader EXCEPT !.cls = "file", !.fid = fid, !.status = 500]
       ELSE IF file_matches = {}
       THEN [IdleReader EXCEPT !.cls = "file", !.fid = fid, !.status = 404]
       ELSE LET p == CHOOSE f \in file_matches : TRUE
                mime_magic == _guess(p.data)
                media_type == GuessType(p.ext)
                final_mime == IF mime_magic # "none" THEN mime_magic
                              ELSE IF media_type # "none" THEN media_type
                              ELSE "application/octet-stream"
            IN [IdleReader EXCEPT !.pc = "send", !.cls = "file", !.fid = fid,
                                  !.ext = p.ext, !.media = final_mime]

\* FileResponse: what the client receives for the handler's answer rd: the
\* 404 as it is; else the file at the handler's path, sent whole, or a
\* failed response when the path is gone.
FileResponse(rd) ==
    LET dir == IF rd.cls = "image" THEN images ELSE files
        at == {f \in dir : f.id = rd.fid /\ f.ext = rd.ext}
    IN IF rd.pc # "send" THEN rd
       ELSE IF at = {}
       THEN [rd EXCEPT !.pc = "idle", !.status = 500]
       ELSE [rd EXCEPT !.pc = "idle", !.status = 200,
                       !.body = (CHOOSE f \in at : TRUE).data]

\* The request is answered; the handler's locals are gone.
Answered(rd) == IF rd.pc = "send" THEN rd ELSE IdleReader

\* GET /raw/image/{fid}: the handler.
RawImage ==
    /\ ReaperAsleep
    /\ reader.pc = "idle"
    /\ \E fid \in Ids : reader' = Answered(raw_image(fid))
    /\ UNCHANGED <<now, images, files, metas, tmp, req, reaper, nextId>>

\* GET /raw/file/{fid}: the handler.
RawFile ==
    /\ ReaperAsleep
    /\ reader.pc = "idle"
    /\ \E fid \in Ids : reader' = Answered(raw_file(fid))
    /\ UNCHANGED <<now, images, files, metas, tmp, req, reaper, nextId>>

\* The response of a raw handler is sent.
SendFile ==
    /\ ReaperAsleep
    /\ reader.pc = "send"
    /\ reader' = Answered(FileResponse(reader))
    /\ UNCHANGED <<now, images, files, metas, tmp, req, reaper, nextId>>

\* ------------------------------------------------------------- page views
\* The answer of a page-view handler: 200 with the page, 302 with the
\* location /i/{fid} or /f/{fid}, or an error.
PageAnswer(status, location, fid) ==
    [status |-> status, location |-> location, fid |-> fid]

\* Mutant: the sidecar is looked for in the image area, where none is.
MetaExists_Never(mts, fid) == \E m \in {} : m.id = fid

\* (FILES_DIR / f"{fid}.json").exists()
MetaExists(mts, fid) == \E m \in mts : m.id = fid

\* IMAGES_DIR.glob(f"{fid}.*")
GlobImages(imgs, fid) == {f \in imgs : f.id = fid}

\* image_page(fid): the page of the image, a redirect to the file page when
\* there is no image but a sidecar of that name, else 404.
image_page(fid) ==
    LET matches == GlobImages(images, fid)
    IN IF matches = {}
       THEN IF MetaExists(metas, fid)
            THEN PageAnswer(302, "/f", fid)
            ELSE PageAnswer(404, "", fid)
       ELSE PageAnswer(200, "", fid)

\* file_page(fid): without a sidecar a redirect to the image page when
\* there is an image of that name, else 404; with a sidecar the page of the
\* archive, 404 when the blob is missing, a failure when the sidecar is
\* not JSON.
file_page(fid) ==
    LET real == {p \in files : p.id = fid /\ p.ext # ".json"}
    IN IF ~MetaExists(metas, fid)
       THEN IF GlobImages(images, fid) # {}
            THEN PageAnswer(302, "/i", fid)
            ELSE PageAnswer(404, "", fid)
       ELSE IF \E m \in metas : m.id = fid /\ m.text # "json"
       THEN PageAnswer(500, "", fid)
       ELSE IF real = {}
       THEN PageAnswer(404, "", fid)
       ELSE PageAnswer(200, "", fid)

\* GET /i/{fid}, for whatever fid: the handler reads the store and
\* answers; it changes nothing and keeps nothing.
ImagePage ==
    /\ ReaperAsleep
    /\ \A fid \in Ids : image_page(fid).status \in {200, 302, 404}
    /\ UNCHANGED vars

\* GET /f/{fid}, for whatever fid: the handler reads the store and answers
\* or fails; it changes nothing and keeps nothing.
FilePage ==
    /\ ReaperAsleep
    /\ \A fid \in Ids : file_page(fid).status \in {200, 302, 404, 500}
    /\ UNCHANGED vars

\* ----------------------------------------------------------------- listing
Max(a, b) == IF a > b THEN a ELSE b

Min(a, b) == IF a < b THEN a ELSE b

\* Mutant: the division rounds down.
Ceil_Floor(total, limit) == total \div limit

\* math.ceil(total / limit), for limit > 0
Ceil(total, limit) == (total + limit - 1) \div limit

\* items[start:end], for 0 <= start
Slice(items, start, end) == SubSeq(items, start + 1, Min(end, Len(items)))

\* _paginate(items, page, limit): the slice and the page data.
_paginate(items, page, limit) ==
    LET total == Len(items)
        total_pages == IF limit > 0 THEN Max(1, Ceil(total, limit)) ELSE 1
        clamped == Max(1, Min(page, total_pages))
        start == (clamped - 1) * limit
        end == start + limit
    IN [status |-> 200, items |-> Slice(items, start, end), page |-> clamped,
        per_page |-> limit, total |-> total, total_pages |-> total_pages]

\* Query(1, ge=1) and Query(15, ge=1, le=100): a request whose page or limit
\* is out of range is answered 422 before the handler runs.
Unprocessable(page, limit) == page < 1 \/ limit < 1 \/ limit > 100

Invalid ==
    [status |-> 422, items |-> << >>, page |-> 0, per_page |-> 0, total |-> 0,
     total_pages |-> 0]

\* Mutant: the sort is ascending (reverse=True is missing).
NewerFirst_Ascending(a, b) == a.created <= b.created

\* items.sort(key=created, reverse=True): a may stand before b.  The keys
\* are isoformat strings of UTC times, which order as the times do.
NewerFirst(a, b) == a.created >= b.created

\* The orders the sorted items can come out in: an item that may stand
\* before all others, then the others sorted.  The sort is stable and the
\* directory is iterated in any order, so items of equal key come in any
\* order.
RECURSIVE Sorted(_)
Sorted(items) ==
    IF items = {} THEN {<< >>}
    ELSE UNION {{<<x>> \o s : s \in Sorted(items \ {x})} :
                   x \in {y \in items : \A z \in items : NewerFirst(y, z)}}

\* The items of list_images: one for each file of IMAGES_DIR, created at
\* the modification time of the file.
ImageItems == {[id |-> f.id, created |-> f.mtime] : f \in images}

\* The items of list_files: one for each sidecar that parses, with the id
\* and the created field it records.
FileItems ==
    {[id |-> m.data.id, created |-> m.data.created] :
        m \in {k \in metas : k.text = "json"}}

\* The answers a list request can get, orders being the orders its sorted
\* items can come out in.
Answers(orders, page, limit) ==
    IF Unprocessable(page, limit) THEN {Invalid}
    ELSE {_paginate(s, page, limit) : s \in orders}

\* list_images(page, limit): the answers the request can get.
list_images(page, limit) == Answers(Sorted(ImageItems), page, limit)

\* list_files(page, limit): the answers the request can get.
list_files(page, limit) == Answers(Sorted(FileItems), page, limit)

\* GET /list/images, for whatever page and limit: the handler reads the
\* store and answers; it changes nothing and keeps nothing.
GetListImages ==
    /\ ReaperAsleep
    /\ LET orders == Sorted(ImageItems)
       IN \A page \in Pages, limit \in Limits : Answers(orders, page, limit) # {}
    /\ UNCHANGED vars

\* GET /list/files, for whatever page and limit: the handler reads the
\* store and answers; it changes nothing and keeps nothing.
GetListFiles ==
    /\ ReaperAsleep
    /\ LET orders == Sorted(FileItems)
       IN \A page \in Pages, limit \in Limits : Answers(orders, page, limit) # {}
    /\ UNCHANGED vars

Upload(r) ==
    \/ UploadNoFilename(r)
    \/ UploadHintTooLarge(r)
    \/ UploadOpen(r)
    \/ UploadChunkWrite(r)
    \/ UploadChunkTooLarge(r)
    \/ UploadEof(r)
    \/ UploadEmpty(r)
    \/ UploadUnsupported(r)
    \/ UploadCommitImage(r)
    \/ UploadCommitArchive(r)
    \/ UploadNotAllowed(r)

Reap ==
    \/ ReapBegin
    \/ ReapImage
    \/ ReapFile
    \/ ReapBlob
    \/ ReapOrphan
    \/ ReapSleep

Next ==
    \/ Tick
    \/ \E r \in Reqs : Upload(r)
    \/ Reap
    \/ RawImage
    \/ RawFile
    \/ SendFile

Spec == Init /\ [][Next]_vars

\* The server under uploads, page views and list requests.
Browse ==
    \/ ImagePage
    \/ FilePage
    \/ GetListImages
    \/ GetListFiles

NextBrowse ==
    \/ Tick
    \/ \E r \in Reqs : Upload(r)
    \/ Reap
    \/ Browse

SpecBrowse == Init /\ [][NextBrowse]_vars

\* The same server in an environment where I/O calls can fail and requests
\* can be cancelled.
UploadFault(r) ==
    \/ UploadReadError(r)
    \/ UploadCancel(r)
    \/ UploadGuessError(r)
    \/ UploadRenameError(r)
    \/ UploadSidecarError(r)

NextFault ==
    \/ Next
    \/ \E r \in Reqs : UploadFault(r)

SpecFault == Init /\ [][NextFault]_vars

\* The server in an environment where only the write of a sidecar can fail.
NextSidecarFault ==
    \/ Next
    \/ \E r \in Reqs : UploadSidecarError(r)

SpecSidecarFault == Init /\ [][NextSidecarFault]_vars

\* The server in an environment where a filesystem call of the reap cycle
\* can fail.
NextReapFault ==
    \/ Next
    \/ ReapError

SpecReapFault == Init /\ [][NextReapFault]_vars

\* The Reaper over the long run, its cycles failing or not, beside one
\* upload that gives it something to reap.  The event loop runs cleanup_loop
\* whenever it can run: a cycle is synchronous code that runs to its await,
\* and the timer of asyncio.sleep fires.  Nothing obliges a filesystem call
\* to fail.
NextReapLive ==
    \/ Tick
    \/ Upload(1)
    \/ Reap
    \/ ReapError

SpecReapLive == Init /\ [][NextReapLive]_vars /\ WF_vars(Reap)

\* The server from startup to shutdown.
NextShutdown ==
    \/ Next
    \/ Shutdown

SpecShutdown == Init /\ [][NextShutdown]_vars

\* The list handlers over a store of any content: IMAGES_DIR holds any
\* images, or FILES_DIR any archives with their sidecars, stored at any
\* times up to now; cleanup_loop is asleep and no upload is under way.
StoredImage(fid, t) == [id |-> fid, ext |-> ".png", data |-> <<"PNG">>, mtime |-> t]

StoredArchive(fid, t) == [id |-> fid, ext |-> ".zip", data |-> <<"ZIP">>, mtime |-> t]

StoredSidecar(fid, t) ==
    [id |-> fid, mtime |-> t, text |-> "json",
     data |-> [id |-> fid, original_name |-> "b.zip", saved_name |-> <<fid, ".zip">>,
               size |-> 1, created |-> t]]

InitListed ==
    /\ now = MaxTime
    /\ \E S \in SUBSET (1..MaxItems) :
         \E created \in [S -> 0..MaxTime] :
            \E class \in {"image", "file"} :
               /\ images = IF class = "image"
                           THEN {StoredImage(i, created[i]) : i \in S} ELSE {}
               /\ files = IF class = "file"
                          THEN {StoredArchive(i, created[i]) : i \in S} ELSE {}
               /\ metas = IF class = "file"
                          THEN {StoredSidecar(i, created[i]) : i \in S} ELSE {}
    /\ tmp = [r \in Reqs |-> NoTmp]
    /\ req = [r \in Reqs |-> IdleReq]
    /\ reaper = IdleReaper
    /\ nextId = MaxItems + 1
    /\ reader = IdleReader

NextListed ==
    \/ GetListImages
    \/ GetListFiles

SpecListed == InitListed /\ [][NextListed]_vars

\* ================================================================ claims
\* The upload request r was answered with its success response.
Succeeded(r) == req[r].pc = "done" /\ req[r].status = 200

\* The blobs stored under the identifier of upload r.
BlobsOf(r) == {f \in images \cup files : f.id = req[r].fid}

\* C1 (atomicity of commit): every file in the image area or the archive
\* area holds the complete bytes of an upload that finished streaming and
\* passed classification; an upload in progress or rejected exists only as a
\* staging file, so no file in an area, and no file a raw-delivery response
\* is about to send, is shorter than the upload it came from.
C1_Atomicity ==
    /\ \A f \in images \cup files :
          \E r \in Reqs :
              /\ Succeeded(r)
              /\ req[r].fid = f.id
              /\ f.data = req[r].body
              /\ _guess(req[r].body) \in IMAGE_MIME \cup ARCHIVE_MIME
    /\ \A r \in Reqs : ~Succeeded(r) => BlobsOf(r) = {} /\ req[r].fid = 0
    /\ reader.pc = "send" /\ FileResponse(reader).status = 200
          => \E r \in Reqs : /\ Succeeded(r)
                              /\ req[r].fid = reader.fid
                              /\ FileResponse(reader).body = req[r].body

\* A committed file is in an area while another upload is half-way through
\* streaming its body to its staging file.
C1_Witness ==
    \E r1, r2 \in Reqs :
        /\ Succeeded(r1)
        /\ BlobsOf(r1) # {}
        /\ req[r2].pc = "read"
        /\ tmp[r2].exists
        /\ 0 < Len(tmp[r2].data)
        /\ Len(tmp[r2].data) < Len(req[r2].body)

\* The true body of upload r is longer than the ceiling.
Oversized(r) == req[r].pc = "done" /\ Len(req[r].body) > max_bytes

\* No file of upload r is in an area: none under an identifier of r, none
\* holding r's bytes.
NothingStored(r) ==
    /\ req[r].fid = 0
    /\ \A f \in images \cup files : f.data # req[r].body

\* C2, as claimed (size ceiling): every upload whose true body is longer
\* than MAX_FILE_MB MiB fails with 413, whatever the Content-Length says;
\* the staging file never holds more than the ceiling, and nothing of the
\* upload is in either area afterwards.
C2_AsClaimed ==
    /\ \A r \in Reqs : Len(tmp[r].data) <= max_bytes
    /\ \A r \in Reqs :
          Oversized(r) => req[r].status = 413 /\ NothingStored(r)

\* C2, amended: every upload that names a file and whose true body is
\* longer than the ceiling fails with 413; an oversized upload without a
\* filename fails too, with 400; the staging file never holds more than the
\* ceiling, and nothing of an oversized upload is in either area.
C2_SizeCeiling ==
    /\ \A r \in Reqs : Len(tmp[r].data) <= max_bytes
    /\ \A r \in Reqs :
          Oversized(r) =>
              /\ req[r].fname # << >> => req[r].status = 413
              /\ req[r].fname = << >> => req[r].status = 400
              /\ NothingStored(r)

\* An oversized upload with a filename was rejected while streaming, its
\* staging file having held exactly the ceiling.
C2_Witness ==
    \E r \in Reqs :
        /\ Oversized(r)
        /\ req[r].fname # << >>
        /\ req[r].detail = "file too large"
        /\ req[r].status = 413

\* C3 (classification fidelity): the area and the extension an upload is
\* stored under depend on its bytes alone: two successful uploads of the
\* same bytes are of the same class and their blobs have the same
\* extension, and bytes with an archive magic number are never in the image
\* area nor answered as an image, whatever the filename.
C3_ClassificationFidelity ==
    /\ \A r1, r2 \in Reqs :
          Succeeded(r1) /\ Succeeded(r2) /\ req[r1].body = req[r2].body =>
              /\ req[r1].type = req[r2].type
              /\ \A f1 \in BlobsOf(r1), f2 \in BlobsOf(r2) :
                    /\ f1.ext = f2.ext
                    /\ f1 \in images <=> f2 \in images
    /\ \A f \in images : f.data[1] # "ZIP"
    /\ \A f \in files : f.data[1] = "ZIP" /\ f.ext = ".zip"
    /\ \A r \in Reqs :
          Succeeded(r) => (req[r].type = "file" <=> req[r].body[1] = "ZIP")

\* Two uploads of the same archive bytes, one named a.jpg and one b.zip,
\* are both stored.
C3_Witness ==
    \E r1, r2 \in Reqs :
        /\ Succeeded(r1) /\ Succeeded(r2)
        /\ req[r1].body = req[r2].body
        /\ req[r1].body[1] = "ZIP"
        /\ req[r1].fname = <<"a.jpg">>
        /\ req[r2].fname = <<"d", "b.zip">>
        /\ BlobsOf(r1) # {} /\ BlobsOf(r2) # {}

\* What a client receives for GET /raw/{class}/{id} of upload r when the
\* request is made and answered now.
RawAnswer(r) ==
    IF req[r].type = "image"
    THEN FileResponse(raw_image(req[r].fid))
    ELSE FileResponse(raw_file(req[r].fid))

\* The media type upload r was classified as.
ClassifiedAs(r) == _guess(req[r].body)

C4_Serves ==
    ReaperAsleep =>
        \A r \in Reqs :
            Succeeded(r) /\ BlobsOf(r) # {} =>
                /\ RawAnswer(r).status = 200
                /\ RawAnswer(r).body = req[r].body
                /\ RawAnswer(r).media = ClassifiedAs(r)

C4_OnlyReaperRemoves ==
    \A r \in Reqs :
        Succeeded(r) /\ BlobsOf(r) # {} /\ BlobsOf(r)' = {} =>
            /\ reaper.pc \in {"images", "blob"}
            /\ \A f \in BlobsOf(r) : f.mtime < reaper.cutoff

\* C4 (upload/serve round trip): from the success response of an upload
\* on, a raw-delivery request for its identifier under the returned class
\* is answered with exactly the uploaded bytes and the media type of the
\* classification, until the Reaper removes the object after its TTL; only
\* the Reaper removes it.
C4_RoundTrip == [](C4_Serves) /\ [][C4_OnlyReaperRemoves]_vars

\* An image and an archive were uploaded and both are served.
C4_Witness ==
    /\ ReaperAsleep
    /\ \E r1, r2 \in Reqs :
        /\ Succeeded(r1) /\ req[r1].type = "image" /\ RawAnswer(r1).status = 200
        /\ Succeeded(r2) /\ req[r2].type = "file" /\ RawAnswer(r2).status = 200
        /\ Len(RawAnswer(r2).body) = max_bytes

\* C5 (TTL expiry): when a reap cycle finishes, every blob of the image
\* area or the archive area that was older than now - TTL when the cycle
\* scanned is absent, and so is the sidecar of such an archive blob.
C5_TTLExpiry ==
    reaper.pc = "end" =>
        /\ \A f \in images : f.id \notin reaper.scan.img
        /\ \A f \in files : f.id \notin reaper.scan.arc
        /\ \A m \in metas : m.id \notin reaper.scan.arc

\* A cycle that found an expired image and an expired archive has finished.
C5_Witness ==
    /\ reaper.pc = "end"
    /\ reaper.scan.img # {}
    /\ reaper.scan.arc # {}

\* A step removes a blob only if the blob is older than now - TTL, and a
\* sidecar only if its blob is.
C6_Step ==
    /\ \A f \in (images \ images') \cup (files \ files') : f.mtime < now - TTL_DAYS
    /\ \A m \in metas \ metas' :
          \A f \in files : f.id = m.id => f.mtime < now - TTL_DAYS

\* C6 (the Reaper spares the young): no step of a reap cycle, however the
\* cycles interleave with upload commits, removes a blob whose modification
\* time is not older than now - TTL, nor the sidecar of such an archive blob:
\* both are still there after the cycle.
C6_YoungSurvive == [][C6_Step]_vars

\* A cycle that removed an expired archive has finished, and an archive
\* exactly TTL old is still there with its sidecar.
C6_Witness ==
    /\ reaper.pc = "end"
    /\ reaper.scan.arc # {}
    /\ \E f \in files :
          /\ f.mtime = now - TTL_DAYS
          /\ \E m \in metas : m.id = f.id

\* C7 (orphan reconciliation): when a reap cycle finishes, every sidecar
\* that had no blob of its stem when the cycle started is gone, whatever
\* its age.
C7_OrphanReconciliation ==
    reaper.pc = "end" => \A m \in metas : m.id \notin reaper.scan.orph

\* A cycle that found an orphaned sidecar younger than the TTL has finished.
C7_Witness ==
    /\ reaper.pc = "end"
    /\ reaper.scan.orph # {}
    /\ OrphanMeta.mtime >= reaper.cutoff

\* Upload r committed an archive blob and the request is over.
CommittedArchive(r) == req[r].pc = "done" /\ req[r].type = "file"

\* A sidecar {id}.json with the id of upload r's blob exists.
HasSidecar(r) ==
    \E m \in metas : m.id = req[r].fid /\ m.text = "json" /\ m.data.id = req[r].fid

\* C8, as claimed: once an upload request that committed an archive blob is
\* over, with any outcome, its sidecar exists for as long as the blob does
\* (at every point where a request can run).
C8_AsClaimed ==
    ReaperAsleep =>
        \A r \in Reqs : CommittedArchive(r) /\ BlobsOf(r) # {} => HasSidecar(r)

\* C8, amended: once an upload request that committed an archive blob has
\* returned its success response, its sidecar exists for as long as the blob
\* does (at every point where a request can run).
C8_SidecarOfSuccess ==
    ReaperAsleep =>
        \A r \in Reqs :
            CommittedArchive(r) /\ Succeeded(r) /\ BlobsOf(r) # {} => HasSidecar(r)

\* An archive upload has succeeded, time has passed, a reap cycle has run,
\* and the blob is still stored.
C8_Witness ==
    /\ ReaperAsleep
    /\ now > 0
    /\ metas # {}
    /\ OrphanMeta \notin metas
    /\ \E r \in Reqs : CommittedArchive(r) /\ Succeeded(r) /\ BlobsOf(r) # {}

\* C9, as claimed (staging cleanup on every failing exit): whenever an
\* upload request has ended with an error, whichever step failed, its
\* staging file no longer exists.
C9_AsClaimed ==
    \A r \in Reqs :
        req[r].pc = "done" /\ req[r].status >= 400 => ~tmp[r].exists

\* C10, as claimed (cancellation cleanup): when an upload has been
\* cancelled while its body was being streamed to staging, its staging file
\* no longer exists.
C10_AsClaimed ==
    \A r \in Reqs :
        req[r].pc = "done" /\ req[r].detail = "cancelled" => ~tmp[r].exists

\* C11, as claimed (a failed sidecar write is not fatal): every upload
\* request that committed an archive blob into the archive area is answered
\* with its success response, also when the write of its sidecar failed, and
\* the committed blob is in place (for as long as nothing can have expired).
C11_AsClaimed ==
    \A r \in Reqs :
        CommittedArchive(r) =>
            /\ req[r].status = 200
            /\ ReaperAsleep /\ now <= TTL_DAYS => BlobsOf(r) # {}

\* The objects a cycle found to reap at its start that are still there: an
\* expired image, an expired archive (its blob or its sidecar), an orphaned
\* sidecar.
LeftBehind ==
    {<<"image", f.id>> : f \in {g \in images : g.id \in reaper.scan.img}}
    \cup {<<"archive", f.id>> : f \in {g \in files : g.id \in reaper.scan.arc}}
    \cup {<<"archive", m.id>> : m \in {k \in metas : k.id \in reaper.scan.arc}}
    \cup {<<"orphan", m.id>> : m \in {k \in metas : k.id \in reaper.scan.orph}}

\* C12, as claimed (resilience within a cycle): a filesystem call fails on
\* at most one file per cycle here; when the cycle is over, every other
\* expired object and every other orphaned sidecar the cycle found has been
\* reaped, so at most the one bad object is left.
C12_AsClaimed == reaper.pc = "end" => Cardinality(LeftBehind) <= 1

\* What a client may receive for a raw-delivery request: NotFound, or the
\* complete bytes of the upload stored under the identifier.
CompleteOrNotFound(ans) ==
    \/ ans.status = 404
    \/ /\ ans.status = 200
       /\ \E r \in Reqs : Succeeded(r) /\ req[r].fid = ans.fid /\ ans.body = req[r].body

\* C13, as claimed (read/reap race tolerance): at every point where a
\* request can run, a raw-delivery request - one made now, or one whose
\* handler has answered before a reap cycle and whose response is sent after
\* it - ends with the complete content or with 404, and a page-view request
\* ends with its page, a redirect or 404; none ends with an internal error
\* or with partial content.
C13_AsClaimed ==
    ReaperAsleep =>
        /\ reader.pc = "send" => CompleteOrNotFound(FileResponse(reader))
        /\ \A fid \in Ids :
              /\ CompleteOrNotFound(FileResponse(raw_image(fid)))
              /\ CompleteOrNotFound(FileResponse(raw_file(fid)))
              /\ image_page(fid).status \in {200, 302, 404}
              /\ file_page(fid).status \in {200, 302, 404}

\* Every stored blob has its identifier to itself: one blob per identifier
\* in each area, none in both, and the successful uploads have pairwise
\* distinct identifiers.
C14_Distinct ==
    /\ \A r1, r2 \in Reqs :
          Succeeded(r1) /\ Succeeded(r2) /\ r1 # r2 => req[r1].fid # req[r2].fid
    /\ \A f, g \in images \cup files : f.id = g.id => f = g
    /\ \A f \in images : \A g \in files : f.id # g.id

\* A step that puts a blob or a sidecar into an area puts it on a path no
\* blob and no sidecar was on before.
C14_Step ==
    /\ \A g \in (images' \ images) \cup (files' \ files) :
          \A f \in images \cup files : f.id # g.id
    /\ \A m \in metas' \ metas : \A k \in metas : k.id # m.id

\* C14 (identifier uniqueness): successful uploads, sequential or
\* overlapping, have pairwise distinct identifiers; no commit lands on the
\* path of an already committed blob; an identifier names at most one blob
\* of each class.
C14_IdentifierUniqueness == [](C14_Distinct) /\ [][C14_Step]_vars

\* Two overlapping uploads of the same bytes have both succeeded and both
\* blobs are stored.
C14_Witness ==
    \E r1, r2 \in Reqs :
        /\ r1 # r2
        /\ Succeeded(r1) /\ Succeeded(r2)
        /\ req[r1].body = req[r2].body
        /\ req[r1].fid > req[r2].fid
        /\ r1 < r2
        /\ BlobsOf(r1) # {} /\ BlobsOf(r2) # {}

\* A step of a request handler (the Reaper does not move) removes and
\* changes no file of an area and touches no staging file but that of the
\* request that took the step; a step of the Reaper adds and changes
\* nothing.
C15_Step ==
    /\ reaper' = reaper =>
          /\ images \subseteq images'
          /\ files \subseteq files'
          /\ metas \subseteq metas'
          /\ \A r \in Reqs : tmp'[r] # tmp[r] => req'[r] # req[r]
    /\ reaper' # reaper =>
          /\ images' \subseteq images
          /\ files' \subseteq files
          /\ metas' \subseteq metas
          /\ tmp' = tmp

\* C15 (immutability and single destroyer): no step of a request handler
\* (upload, page view, raw delivery) deletes, renames or changes a committed
\* blob or an existing sidecar; files leave the areas only in steps of the
\* Reaper, and the cleanup of an upload removes its own staging file only.
C15_Immutability == [][C15_Step]_vars

\* An upload was rejected and cleaned up after an archive upload had
\* succeeded: the blob, its sidecar and the sidecar found at start are all
\* still there.
C15_Witness ==
    /\ ReaperAsleep
    /\ OrphanMeta \in metas
    /\ \E r1, r2 \in Reqs :
        /\ CommittedArchive(r1) /\ Succeeded(r1)
        /\ BlobsOf(r1) # {} /\ HasSidecar(r1)
        /\ req[r2].pc = "done"
        /\ req[r2].detail = "file too large"
        /\ ~tmp[r2].exists

\* The image list requests clamp the page given: every answer is a page
\* with total_pages = max(1, ceil(total / limit)); a page above total_pages
\* is answered exactly as the last page is, a page below 1 exactly as page
\* 1 is.
ClampsImages(page, limit) ==
    /\ \A ans \in list_images(page, limit) :
          /\ ans.status = 200
          /\ ans.total_pages = Max(1, Ceil(ans.total, limit))
          /\ page > ans.total_pages =>
                /\ ans.page = ans.total_pages
                /\ list_images(page, limit) = list_images(ans.total_pages, limit)
    /\ page < 1 => list_images(page, limit) = list_images(1, limit)

\* The same of the archive list requests.
ClampsFiles(page, limit) ==
    /\ \A ans \in list_files(page, limit) :
          /\ ans.status = 200
          /\ ans.total_pages = Max(1, Ceil(ans.total, limit))
          /\ page > ans.total_pages =>
                /\ ans.page = ans.total_pages
                /\ list_files(page, limit) = list_files(ans.total_pages, limit)
    /\ page < 1 => list_files(page, limit) = list_files(1, limit)

\* C16, as claimed (pagination clamping): for every list request with a
\* limit in range, total_pages = max(1, ceil(total / limit)); a page above
\* total_pages returns the items and the page number of the last page, and
\* a page of 0 or below returns those of page 1, not an error.
C16_AsClaimed ==
    \A page \in Pages, limit \in Limits \cap 1..100 :
        /\ ClampsImages(page, limit)
        /\ ClampsFiles(page, limit)

\* Upload r stored an image and no upload has committed after it:
\* identifiers are drawn in the order of the commits.
LastCommittedImage(r) ==
    /\ Succeeded(r)
    /\ req[r].type = "image"
    /\ BlobsOf(r) # {}
    /\ \A q \in Reqs \ {r} : req[q].fid < req[r].fid

\* Some answer (every answer) to GET /list/images?page=1 has the image of
\* upload r as its first item, whatever the limit.
FirstInSome(r) ==
    \A limit \in Limits \cap 1..100 :
        \E ans \in list_images(1, limit) :
            ans.items # << >> /\ ans.items[1].id = req[r].fid

FirstInEvery(r) ==
    \A limit \in Limits \cap 1..100 :
        \A ans \in list_images(1, limit) :
            ans.items # << >> /\ ans.items[1].id = req[r].fid

\* C17, as claimed (newest-first listing): once an image upload has
\* succeeded and no other upload has committed after it, page 1 of the image
\* listing has the new identifier as its first item (items of equal time
\* being taken in the order that puts it first).
C17_AsClaimed ==
    ReaperAsleep => \A r \in Reqs : LastCommittedImage(r) => FirstInSome(r)

\* The image of upload r was last written later than every other stored
\* image.
LatestWritten(r) ==
    \A f \in BlobsOf(r) : \A g \in images \ {f} : g.mtime < f.mtime

\* C17, amended: once an image upload has succeeded and no other upload has
\* committed after it, page 1 of the image listing has the new identifier as
\* its first item, in every order the listing can come out in, provided the
\* new image's created time (the time of the last write to its staging
\* file) is later than that of every other stored image.
C17_NewestFirst ==
    ReaperAsleep =>
        \A r \in Reqs : LastCommittedImage(r) /\ LatestWritten(r) => FirstInEvery(r)

\* Two images are stored; the one committed last was also written last and
\* is listed first.
C17_Witness ==
    /\ ReaperAsleep
    /\ Cardinality(images) = 2
    /\ \E r \in Reqs : LastCommittedImage(r) /\ LatestWritten(r) /\ FirstInEvery(r)

\* An image, an archive blob, a sidecar is stored under the identifier.
HasImage(fid) == \E f \in images : f.id = fid

HasArchive(fid) == \E f \in files : f.id = fid

Unknown(fid) == ~HasImage(fid) /\ ~HasArchive(fid) /\ ~MetaExists(metas, fid)

\* C18 (cross-class page view): a page-view request for the image page of
\* an identifier that names no image but an archive is answered with a
\* redirect to its file page, one for the file page of an identifier that
\* names no archive but an image with a redirect to its image page, and
\* one for an identifier nothing in either area is named by with 404.
C18_CrossClass ==
    ReaperAsleep =>
        \A fid \in Ids :
            /\ ~HasImage(fid) /\ HasArchive(fid) =>
                  image_page(fid) = PageAnswer(302, "/f", fid)
            /\ ~HasArchive(fid) /\ HasImage(fid) =>
                  file_page(fid) = PageAnswer(302, "/i", fid)
            /\ Unknown(fid) =>
                  /\ image_page(fid).status = 404
                  /\ file_page(fid).status = 404

\* An image and an archive are stored, each asked for under the other
\* class, and a third identifier names nothing.
C18_Witness ==
    /\ ReaperAsleep
    /\ \E i, j, k \in Ids :
        /\ HasImage(i) /\ file_page(i).status = 302 /\ image_page(i).status = 200
        /\ HasArchive(j) /\ image_page(j).status = 302 /\ file_page(j).status = 200
        /\ Unknown(k) /\ image_page(k).status = 404

\* A step that unlinks a blob of the archive area finds its sidecar already
\* gone and leaves none behind.
C19_Step ==
    \A f \in files \ files' :
        /\ reaper.pc = "blob"
        /\ ~MetaExists(metas, f.id)
        /\ ~MetaExists(metas', f.id)

\* C19 (sidecar before blob): whenever the Reaper unlinks an expired
\* archive blob, the sidecar of its stem is already absent at that moment,
\* in whatever order the scan visits the blob and its sidecar; no blob is
\* removed and its sidecar left behind.
C19_SidecarFirst == [][C19_Step]_vars

\* The Reaper is between the two unlinks of an expired archive: the sidecar
\* is gone, the blob is still there, and the scan has yet to visit the
\* sidecar's own entry.
C19_Witness ==
    /\ reaper.pc = "blob"
    /\ \E f \in files : f.id = reaper.cur[1] /\ f.ext = reaper.cur[2]
    /\ ~MetaExists(metas, reaper.cur[1])
    /\ <<reaper.cur[1], ".json">> \in reaper.todo

\* The cancelled Reaper stopped outside a cycle: it holds no entry and no
\* rest of a scan, and every archive blob has its sidecar.
C20_Stopped ==
    reaper.pc = "stopped" =>
        /\ reaper.cur = NoEntry
        /\ reaper.todo = {}
        /\ \A f \in files : MetaExists(metas, f.id)

\* The Reaper stops only from its sleep between two cycles, and once
\* stopped it stays stopped and removes nothing.
C20_Step ==
    /\ reaper'.pc = "stopped" /\ reaper.pc # "stopped" => reaper.pc = "sleep"
    /\ reaper.pc = "stopped" =>
          /\ reaper'.pc = "stopped"
          /\ <<images, files, metas>>' = <<images, files, metas>>

\* C20 (clean cooperative shutdown): on shutdown the Reaper task is
\* cancelled and ends; it ends only while it sleeps between two cycles,
\* never in the middle of one, so that it leaves no archive whose sidecar it
\* deleted and whose expired blob it did not.
C20_CleanShutdown == [](C20_Stopped) /\ [][C20_Step]_vars

\* The Reaper was stopped after a cycle, with an archive in the area that
\* has expired since and waits, with its sidecar, for a cycle that will not
\* come.
C20_Witness ==
    /\ reaper.pc = "stopped"
    /\ OrphanMeta \notin metas
    /\ \E f \in files : f.mtime < now - TTL_DAYS /\ MetaExists(metas, f.id)

\* A cycle is under way or has just ended.
InCycle == reaper.pc \in {"images", "files", "blob", "orphans", "end"}

\* C21 (the reaper never stops on its own): from any point of a cycle, also
\* of one in which a filesystem call raised, the Reaper reaches its sleep;
\* from its sleep it starts another cycle; with no cancellation it starts
\* cycles infinitely often.
C21_NeverStops ==
    /\ InCycle ~> ReaperAsleep
    /\ ReaperAsleep ~> InCycle
    /\ []<><<ReapBegin>>_vars

\* A cycle has ended on an error: something it found to reap is still there.
C21_Witness == reaper.pc = "end" /\ LeftBehind # {}

\* The upload request r ended with one of the errors of the validation: no
\* filename, empty body, too large, unrecognised type, type not allowed.
Failed(r) == req[r].pc = "done" /\ req[r].status \in {400, 413, 415}

\* A step of the handler of request r that does not end in its success
\* response leaves both areas and the identifiers handed out as they were.
C22_Step ==
    \A r \in Reqs :
        req'[r] # req[r] /\ ~(req'[r].pc = "done" /\ req'[r].status = 200) =>
            /\ images' = images
            /\ files' = files
            /\ metas' = metas
            /\ nextId' = nextId

\* An identifier is drawn only in a step that commits a blob under it.
C22_DrawnAtCommit ==
    nextId' # nextId =>
        \E r \in Reqs :
            /\ req[r].pc = "close"
            /\ req'[r].pc = "done" /\ req'[r].status = 200 /\ req'[r].fid = nextId
            /\ \E f \in (images' \ images) \cup (files' \ files) : f.id = nextId

\* C22 (failed uploads leave the store untouched): an upload that ends with
\* no filename, empty body, too large, unrecognised type or type not allowed
\* has changed neither the image area nor the archive area in any of its
\* steps, and has no object identifier; an identifier is drawn only in the
\* step that commits the blob.
C22_FailedUntouched ==
    /\ [](\A r \in Reqs : Failed(r) => req[r].fid = 0 /\ req[r].type = "none")
    /\ [][C22_Step /\ C22_DrawnAtCommit]_vars

\* An upload was rejected for its type after another one had stored a blob:
\* the blob is there and the rejected upload has no identifier.
C22_Witness ==
    \E r, q \in Reqs :
        /\ Failed(r) /\ req[r].detail = "media type not allowed" /\ req[r].fid = 0
        /\ Succeeded(q) /\ q < r /\ BlobsOf(q) # {}

\* The sidecars {id}.json of the archive area that have no blob of stem id.
Orphans == {m \in metas : ~BlobExists(files, m.id)}

\* C23 (no sidecar without its blob): no step of an upload or of the Reaper,
\* in whatever order they interleave, leaves a sidecar without its blob that
\* was not without it before; in every reachable state a sidecar without a
\* blob is the one the store held at startup, every sidecar written by an
\* upload has its blob beside it for as long as it exists.  This holds also
\* of a blob that was older than the TTL when it was committed.
C23_NoSidecarWithoutBlob ==
    /\ [](Orphans \subseteq {OrphanMeta})
    /\ [][Orphans' \subseteq Orphans]_vars

\* The Reaper is between the two unlinks of an expired archive while the
\* archive of another upload, already older than the TTL when it was
\* committed, stands with its sidecar.
C23_Witness ==
    /\ reaper.pc = "blob"
    /\ \E r \in Reqs :
        /\ CommittedArchive(r)
        /\ req[r].fid # reaper.cur[1]
        /\ MetaExists(metas, req[r].fid)
        /\ \E f \in files : f.id = req[r].fid /\ f.mtime < now - TTL_DAYS

\* The slices _paginate returns for the pages 1..n of items, one after the
\* other.
RECURSIVE Concatenated(_, _, _)
Concatenated(items, limit, n) ==
    IF n = 0 THEN << >>
    ELSE Concatenated(items, limit, n - 1) \o _paginate(items, n, limit).items

\* The pages 1..total_pages of items hold at most limit items each and,
\* one after the other, are items.
Partitioned(items, limit) ==
    LET total_pages == _paginate(items, 1, limit).total_pages
    IN /\ \A page \in 1..total_pages :
             /\ _paginate(items, page, limit).page = page
             /\ Len(_paginate(items, page, limit).items) <= limit
       /\ Concatenated(items, limit, total_pages) = items

\* C24 (pages partition the listing): for every sorted item list a list
\* request can get and every limit >= 1, the slices of the pages
\* 1..total_pages, concatenated in page order, are the whole list, no item
\* repeated or omitted, and no slice has more than limit items.
C24_PagesPartition ==
    \A items \in Sorted(ImageItems) \cup Sorted(FileItems) :
        \A limit \in {l \in Limits : l >= 1} : Partitioned(items, limit)

\* A list of three items, two of them of the same creation time, is cut
\* into two pages, the last one partly filled.
C24_Witness ==
    \E items \in Sorted(FileItems) :
        /\ Len(items) = 3
        /\ items[1].created = items[2].created
        /\ MaxLimit \in Limits
        /\ _paginate(items, 1, MaxLimit).total_pages = 2
        /\ Len(_paginate(items, 2, MaxLimit).items) = 1
        /\ Partitioned(items, MaxLimit)

====
